---- MODULE Spec2Model ----
(***************************************************************************)
(* Register-level model of the STTS751 temperature sensor driver           *)
(* (src/stts751.py).  The driver object is the record `self` (its cached   *)
(* fields), the sensor is the register file `dev`, and every public method *)
(* is one action: the handler runs to completion, issuing its bus          *)
(* transactions in order against `dev`.  A bus transaction may fail (the   *)
(* transport raises); the index of the failing transaction is an input of  *)
(* the action.  `call` records the last call: its arguments, result,       *)
(* exception and the transactions it issued.                               *)
(***************************************************************************)
EXTENDS Integers, Sequences, FiniteSets

(* ------------------------------------------------------------------ *)
(* Module constants of stts751.py                                     *)
(* ------------------------------------------------------------------ *)
STTS751_RES_9  == 8
STTS751_RES_10 == 0
STTS751_RES_11 == 4
STTS751_RES_12 == 12

ODR_OFF      == 128
ODR_ONE_SHOT == 144
ODR_62mHz5   == 0
ODR_125mHz   == 1
ODR_250mHz   == 2
ODR_500mHz   == 3
ODR_1Hz      == 4
ODR_2Hz      == 5
ODR_4Hz      == 6
ODR_8Hz      == 7
ODR_16Hz     == 8
ODR_32Hz     == 9

\* ODR_AVAILABLE.values()
ODR_AVAILABLE ==
    {ODR_OFF, ODR_ONE_SHOT, ODR_62mHz5, ODR_125mHz, ODR_250mHz, ODR_500mHz,
     ODR_1Hz, ODR_2Hz, ODR_4Hz, ODR_8Hz, ODR_16Hz, ODR_32Hz}

REG_TEMPERATURE_H    == 0
REG_STATUS           == 1
REG_TEMPERATURE_L    == 2
REG_CONFIGURATION    == 3
REG_CONV_RATE        == 4
REG_HIGH_LIMIT_H     == 5
REG_HIGH_LIMIT_L     == 6
REG_LOW_LIMIT_H      == 7
REG_LOW_LIMIT_L      == 8
REG_ONESHOT          == 15
REG_THERM            == 32
REG_THERM_HYSTERESIS == 33
REG_SMBUS_TIMEOUT    == 34

CONF_RES_MASK  == 12
CONV_RATE_MASK == 15

STATUS_BUSY  == 128
STATUS_THIGH == 64
STATUS_LOW   == 32
STATUS_THURM == 1

\* The registers the driver reads or writes.
Regs ==
    {REG_TEMPERATURE_H, REG_STATUS, REG_TEMPERATURE_L, REG_CONFIGURATION,
     REG_CONV_RATE, REG_HIGH_LIMIT_H, REG_HIGH_LIMIT_L, REG_LOW_LIMIT_H,
     REG_LOW_LIMIT_L, REG_ONESHOT, REG_THERM, REG_THERM_HYSTERESIS,
     REG_SMBUS_TIMEOUT}

(* ------------------------------------------------------------------ *)
(* Python's integer operators, as the driver uses them                *)
(* ------------------------------------------------------------------ *)
\* a & b for a mask b >= 0; a may be negative (Python integers are
\* two's complement of unbounded width: a % 2 and a \div 2 floor).
RECURSIVE BitAnd(_, _)
BitAnd(a, b) ==
    IF b = 0 THEN 0
    ELSE (a % 2) * (b % 2) + 2 * BitAnd(a \div 2, b \div 2)

\* a | b for a, b >= 0.
RECURSIVE BitOr(_, _)
BitOr(a, b) ==
    IF a = 0 THEN b
    ELSE IF b = 0 THEN a
    ELSE (IF a % 2 = 1 \/ b % 2 = 1 THEN 1 ELSE 0) + 2 * BitOr(a \div 2, b \div 2)

\* a >> k
RECURSIVE Shr(_, _)
Shr(a, k) == IF k = 0 THEN a ELSE Shr(a \div 2, k - 1)

\* a << k
RECURSIVE Shl(_, _)
Shl(a, k) == IF k = 0 THEN a ELSE Shl(2 * a, k - 1)

(* ------------------------------------------------------------------ *)
(* Bus transactions: _read and _write over the transport              *)
(* ------------------------------------------------------------------ *)
\* self._read(addr, 1)[0] on register file d: one transaction.
_read(d, addr) == [rw |-> "r", reg |-> addr, val |-> d[addr], ok |-> TRUE]

\* self._write(addr, data): one transaction.
_write(addr, data) == [rw |-> "w", reg |-> addr, val |-> data, ok |-> TRUE]

\* The register file after the (successful) transactions p.
RECURSIVE ApplyWrites(_, _)
ApplyWrites(d, p) ==
    IF p = <<>> THEN d
    ELSE ApplyWrites(IF Head(p).rw = "w"
                     THEN [d EXCEPT ![Head(p).reg] = Head(p).val]
                     ELSE d,
                     Tail(p))

\* The transactions prog issued in order on register file d, where the
\* transport raises on the f-th one (f = 0 or f > Len(prog): none).  The
\* failing transaction is issued, has no effect on the device and ends
\* the sequence.
Run(d, prog, f) ==
    LET failed == f \in 1..Len(prog)
        done   == IF failed THEN f - 1 ELSE Len(prog)
    IN  [dev |-> ApplyWrites(d, SubSeq(prog, 1, done)),
         bus |-> IF failed
                 THEN Append(SubSeq(prog, 1, done), [prog[f] EXCEPT !.ok = FALSE])
                 ELSE prog,
         ok  |-> ~failed]

\* The failure index left for the code that runs after the transactions bus.
Rest(f, bus) == IF f > Len(bus) THEN f - Len(bus) ELSE 0

\* What a handler leaves: the driver's fields, the registers, the
\* transactions it issued, what it returned ("True", "False", "None") and
\* the exception it raised ("" when it returned).
Outcome(s, d, bus, ret, exc) ==
    [self |-> s, dev |-> d, bus |-> bus, ret |-> ret, exc |-> exc, val |-> << >>]

\* A handler returns the value v ("value" in ret, v in val).
Value(s, d, bus, v) == [Outcome(s, d, bus, "value", "") EXCEPT !.val = v]

\* What two statements leave, b run after a: b's outcome, and the
\* transactions of both.
Join(a, b) == [b EXCEPT !.bus = a.bus \o b.bus]

(* ------------------------------------------------------------------ *)
(* The driver's methods.  Each takes the driver's fields s, the        *)
(* register file d, its arguments and the failing transaction f, and   *)
(* yields an Outcome.                                                  *)
(* ------------------------------------------------------------------ *)
\* _set_resolution: read CONFIGURATION, OR nbit into it, write it back.
_set_resolution(d, nbit) ==
    LET conf == d[REG_CONFIGURATION]
    IN  << _read(d, REG_CONFIGURATION),
           _write(REG_CONFIGURATION, BitOr(conf, nbit)) >>

\* _set_odr: the rate code's low nibble to CONV_RATE, its bit 7 to bit 1
\* of CONFIGURATION, and the one-shot trigger for ODR_ONE_SHOT.
_set_odr(d, o) ==
    LET cr   == BitAnd(o, 15)
        conf == d[REG_CONFIGURATION]
    IN  << _read(d, REG_CONV_RATE),
           _write(REG_CONV_RATE, cr),
           _read(d, REG_CONFIGURATION),
           _write(REG_CONFIGURATION,
                  IF Shr(BitAnd(o, 128), 7) # 0
                  THEN BitOr(conf, 2)
                  ELSE BitAnd(conf, 253)) >>
        \o (IF o = ODR_ONE_SHOT THEN << _write(REG_ONESHOT, 170) >> ELSE << >>)

\* Mutant of Configured: enable forgets to store the resolution.
ConfiguredRateOnly(s, o, r) == [s EXCEPT !.odr = o]

\* enable's cache update after both sub-writes returned True.
Configured(s, o, r) == [s EXCEPT !.odr = o, !.resolution = r]

\* enable's short-circuit: the arguments equal the cached values.
SameConfig(s, o, r) == o = s.odr /\ r = s.resolution

\* Mutant of Forbidden: the 32Hz test names 12-bit only.
ForbiddenOnly12(o, r) ==
    \/ o = ODR_16Hz /\ r = STTS751_RES_12
    \/ o = ODR_32Hz /\ r = STTS751_RES_12

\* enable's forbidden rate/resolution combinations.
Forbidden(o, r) ==
    \/ o = ODR_16Hz /\ r = STTS751_RES_12
    \/ o = ODR_32Hz /\ r \in {STTS751_RES_12, STTS751_RES_11}

\* enable: _set_resolution and _set_odr swallow the transport's exception
\* and return False; the cache is written only when both returned True.
enable(s, d, o, r, f) ==
    IF o \notin ODR_AVAILABLE THEN Outcome(s, d, << >>, "None", "ValueError")
    ELSE IF SameConfig(s, o, r) THEN Outcome(s, d, << >>, "True", "")
    ELSE IF Forbidden(o, r) THEN Outcome(s, d, << >>, "None", "ValueError")
    ELSE
      LET r1 == Run(d, _set_resolution(d, r), f)
          r2 == Run(r1.dev, _set_odr(r1.dev, o), Rest(f, r1.bus))
      IN  IF ~r1.ok THEN Outcome(s, r1.dev, r1.bus, "False", "")
          ELSE IF ~r2.ok THEN Outcome(s, r2.dev, r1.bus \o r2.bus, "False", "")
          ELSE Outcome(Configured(s, o, r), r2.dev, r1.bus \o r2.bus, "True", "")

\* disable
disable(s, d, f) ==
    IF s.odr = ODR_OFF THEN Outcome(s, d, << >>, "True", "")
    ELSE
      LET res == Run(d, _set_odr(d, ODR_OFF), f)
      IN  Outcome(IF res.ok THEN [s EXCEPT !.odr = ODR_OFF] ELSE s,
                  res.dev, res.bus, IF res.ok THEN "True" ELSE "False", "")

\* get_status: Python's >> binds tighter than &, so `status & 0x80 >> 7`
\* is status & (0x80 >> 7).
get_status(s, d, f) ==
    LET res    == Run(d, << _read(d, REG_STATUS) >>, f)
        status == d[REG_STATUS]
    IN  IF ~res.ok THEN Outcome(s, res.dev, res.bus, "None", "PeripheralError")
        ELSE Value(s, res.dev, res.bus,
                     [busy   |-> BitAnd(status, Shr(128, 7)) # 0,
                      t_low  |-> BitAnd(status, Shr(64, 6)) # 0,
                      t_high |-> BitAnd(status, Shr(32, 5)) # 0,
                      therm  |-> BitAnd(status, 1) # 0])

\* Mutant of Signed16: the word is read as sign and magnitude.
SignMagnitude16(tmp_raw) ==
    IF Shr(BitAnd(tmp_raw, 32768), 15) # 0
    THEN -BitAnd(32767, tmp_raw)
    ELSE tmp_raw

\* get_temp's sign conversion of the 16-bit word.
Signed16(tmp_raw) ==
    IF Shr(BitAnd(tmp_raw, 32768), 15) # 0
    THEN -(32768 - BitAnd(32767, tmp_raw))
    ELSE tmp_raw

\* get_temp: the float tmp_raw / 256.0 is the exact fraction num/den.
get_temp(s, d, raw, f) ==
    LET res     == Run(d, << _read(d, REG_TEMPERATURE_H),
                             _read(d, REG_TEMPERATURE_L) >>, f)
        tmp_h   == d[REG_TEMPERATURE_H]
        tmp_l   == d[REG_TEMPERATURE_L]
        tmp_raw == Shl(tmp_h, 8) + tmp_l
    IN  IF ~res.ok THEN Outcome(s, res.dev, res.bus, "None", "PeripheralError")
        ELSE IF raw THEN Value(s, res.dev, res.bus, tmp_raw)
        ELSE Value(s, res.dev, res.bus,
                   [num |-> Signed16(tmp_raw), den |-> 256])

\* Mutant of set_low_temp_threshold: the cache is written whatever the
\* writes did.
set_low_temp_threshold_unconditional(s, d, level, f) ==
    LET raw == level * 256
        rl  == BitAnd(raw, 255)
        rh  == Shr(BitAnd(raw, 65280), 8)
        res == Run(d, << _write(REG_LOW_LIMIT_L, rl),
                         _write(REG_LOW_LIMIT_H, rh) >>, f)
    IN  Outcome([s EXCEPT !.low_th = level], res.dev, res.bus, "None",
                IF res.ok THEN "" ELSE "PeripheralError")

\* set_low_temp_threshold: the transport's exception propagates, so the
\* assignment to self.low_th is reached only when both writes succeeded.
set_low_temp_threshold(s, d, level, f) ==
    LET raw == level * 256
        rl  == BitAnd(raw, 255)
        rh  == Shr(BitAnd(raw, 65280), 8)
        res == Run(d, << _write(REG_LOW_LIMIT_L, rl),
                         _write(REG_LOW_LIMIT_H, rh) >>, f)
    IN  IF ~res.ok THEN Outcome(s, res.dev, res.bus, "None", "PeripheralError")
        ELSE Outcome([s EXCEPT !.low_th = level], res.dev, res.bus, "None", "")

\* set_high_temp_threshold
set_high_temp_threshold(s, d, level, f) ==
    LET raw == level * 256
        rl  == BitAnd(raw, 255)
        rh  == Shr(BitAnd(raw, 65280), 8)
        res == Run(d, << _write(REG_HIGH_LIMIT_L, rl),
                         _write(REG_HIGH_LIMIT_H, rh) >>, f)
    IN  IF ~res.ok THEN Outcome(s, res.dev, res.bus, "None", "PeripheralError")
        ELSE Outcome([s EXCEPT !.high_th = level], res.dev, res.bus, "None", "")

\* The byte set_event_interrupt and set_timeout write back for the byte
\* reg they read: the masks are the literals 0b0111111 and 0b1000000.
Bit6(reg, en) == IF en THEN BitAnd(reg, 63) ELSE BitOr(reg, 64)

\* set_event_interrupt
set_event_interrupt(s, d, en, f) ==
    LET conf == d[REG_CONFIGURATION]
        res  == Run(d, << _read(d, REG_CONFIGURATION),
                          _write(REG_CONFIGURATION, Bit6(conf, en)) >>, f)
    IN  IF ~res.ok THEN Outcome(s, res.dev, res.bus, "None", "PeripheralError")
        ELSE Outcome([s EXCEPT !.int_enable = en], res.dev, res.bus, "None", "")

\* set_timeout
set_timeout(s, d, en, f) ==
    LET reg == d[REG_SMBUS_TIMEOUT]
        res == Run(d, << _read(d, REG_SMBUS_TIMEOUT),
                         _write(REG_SMBUS_TIMEOUT, Bit6(reg, en)) >>, f)
    IN  IF ~res.ok THEN Outcome(s, res.dev, res.bus, "None", "PeripheralError")
        ELSE Outcome([s EXCEPT !.timeout = en], res.dev, res.bus, "None", "")

\* The range check of set_therm_limit and set_therm_hysteresis_limit.
LevelRejected(level) == level < -127 \/ level > 127

\* The therm setters: _write appends level to a bytearray.  For a level
\* that is no byte (a negative one) the runtime either raises ValueError
\* in append, before the bus is touched, or stores level modulo 256:
\* `wrap` says which.
SetThermRegister(s, d, reg, field, level, f, wrap) ==
    LET res == Run(d, << _write(reg, level % 256) >>, f)
    IN  IF LevelRejected(level) THEN Outcome(s, d, << >>, "None", "ValueError")
        ELSE IF level \notin 0..255 /\ ~wrap
             THEN Outcome(s, d, << >>, "None", "ValueError")
        ELSE IF ~res.ok
             THEN Outcome(s, res.dev, res.bus, "None", "PeripheralError")
        ELSE Outcome([s EXCEPT ![field] = level], res.dev, res.bus, "None", "")

\* set_therm_limit
set_therm_limit(s, d, level, f, wrap) ==
    SetThermRegister(s, d, REG_THERM, "therm_limit", level, f, wrap)

\* set_therm_hysteresis_limit
set_therm_hysteresis_limit(s, d, level, f, wrap) ==
    SetThermRegister(s, d, REG_THERM_HYSTERESIS, "therm_hyst_limit", level, f, wrap)

\* The fields __init__ assigns before it touches the bus.
Defaults ==
    [odr |-> ODR_125mHz, resolution |-> STTS751_RES_12, low_th |-> 1,
     high_th |-> 50, int_enable |-> FALSE, therm_limit |-> 0,
     therm_hyst_limit |-> 0, timeout |-> FALSE]

\* One of __init__'s two closing reads into a cached field.
ReadBack(s, d, reg, field, f) ==
    LET res == Run(d, << _read(d, reg) >>, f)
    IN  IF ~res.ok THEN Outcome(s, res.dev, res.bus, "None", "PeripheralError")
        ELSE Outcome([s EXCEPT ![field] = d[reg]], res.dev, res.bus, "None", "")

\* What statement b of __init__ leaves when it runs after statement a:
\* an exception of a leaves the constructor, and b does not run.
Then(a, b) == IF a.exc # "" THEN a ELSE Join(a, b)

\* The element of a one-element set.
TheOnly(S) == CHOOSE x \in S : TRUE

\* __init__: a PeripheralError of port.start() is printed and construction
\* goes on (startOK is not read again); enable's return value is dropped;
\* an exception of any later statement leaves the constructor.  x1 .. x6
\* are what the statements of lines 107 .. 112 leave, innermost first.
__init__(d, startOK, f) ==
    TheOnly(
    { Then(x6, ReadBack(x6.self, x6.dev, REG_THERM_HYSTERESIS, "therm_hyst_limit",
                        Rest(f, x6.bus))) : x6 \in
    { Then(x5, ReadBack(x5.self, x5.dev, REG_THERM, "therm_limit",
                        Rest(f, x5.bus))) : x5 \in
    { Then(x4, set_timeout(x4.self, x4.dev, FALSE, Rest(f, x4.bus))) : x4 \in
    { Then(x3, set_event_interrupt(x3.self, x3.dev, TRUE, Rest(f, x3.bus))) : x3 \in
    { Then(x2, set_high_temp_threshold(x2.self, x2.dev, x2.self.high_th,
                                       Rest(f, x2.bus))) : x2 \in
    { Then(x1, set_low_temp_threshold(x1.self, x1.dev, x1.self.low_th,
                                      Rest(f, x1.bus))) : x1 \in
    { enable(Defaults, d, Defaults.odr, Defaults.resolution, f) } } } } } } })

(* ------------------------------------------------------------------ *)
(* State                                                               *)
(* ------------------------------------------------------------------ *)
VARIABLES
    phase,   \* "new": before STTS751(...); "ready": the instance was returned;
             \* "failed": the constructor raised, there is no instance
    self,    \* the driver's cached fields
    dev,     \* the sensor's registers
    call,    \* the last call: op, args, ret, val, exc, bus
    n,       \* how many methods were called on the instance
    again    \* the last call repeats the call before it (same method, same
             \* arguments), and that one returned True

vars == << phase, self, dev, call, n, again >>

\* How many method calls a behaviour makes on the instance.
MaxCalls == 2

\* Register contents the sensor may hold when the driver is constructed:
\* the power-on values, and values left behind by an earlier session.
PowerOn ==
    [r \in Regs |->
        CASE r = REG_CONV_RATE        -> 4
          [] r = REG_HIGH_LIMIT_H     -> 85
          [] r = REG_THERM            -> 85
          [] r = REG_THERM_HYSTERESIS -> 10
          [] r = REG_SMBUS_TIMEOUT    -> 128
          [] r = REG_TEMPERATURE_H    -> 25
          [] OTHER                    -> 0]

LeftBehind ==
    [PowerOn EXCEPT ![REG_CONFIGURATION] = 140, ![REG_CONV_RATE] = 9,
                    ![REG_THERM] = 200, ![REG_THERM_HYSTERESIS] = 128,
                    ![REG_SMBUS_TIMEOUT] = 192, ![REG_STATUS] = 128,
                    ![REG_TEMPERATURE_H] = 231]

Images == { PowerOn, LeftBehind }

\* Arguments the caller passes.
Rates       == {ODR_OFF, ODR_ONE_SHOT, ODR_125mHz, ODR_1Hz, ODR_16Hz, ODR_32Hz, 10}
Resolutions == {STTS751_RES_9, STTS751_RES_10, STTS751_RES_11, STTS751_RES_12}
Thresholds  == {-5, 300}
ThermLevels == {-128, -127, 127, 128}

NoCall ==
    [op |-> "", args |-> << >>, ret |-> "None", val |-> << >>, exc |-> "",
     bus |-> << >>]

Init ==
    /\ phase = "new"
    /\ self = Defaults
    /\ dev \in Images
    /\ call = NoCall
    /\ n = 0
    /\ again = FALSE

\* The state after handler outcome x of method op called with args.
Return(op, args, x) ==
    /\ self' = x.self
    /\ dev' = x.dev
    /\ call' = [op |-> op, args |-> args, ret |-> x.ret, val |-> x.val,
                exc |-> x.exc, bus |-> x.bus]
    /\ again' = (call.op = op /\ call.args = args /\ call.ret = "True")

\* A method is called on the instance the constructor returned.
Callable ==
    /\ phase = "ready"
    /\ n < MaxCalls
    /\ n' = n + 1
    /\ phase' = phase

(* ------------------------------------------------------------------ *)
(* Actions: one per method                                             *)
(* ------------------------------------------------------------------ *)
Construct ==
    /\ phase = "new"
    /\ \E startOK \in BOOLEAN :
       \E f \in 0..Len(__init__(dev, startOK, 0).bus) :
          \E x \in {__init__(dev, startOK, f)} :
              /\ Return("__init__", << startOK >>, x)
              /\ phase' = IF x.exc = "" THEN "ready" ELSE "failed"
              /\ n' = n

Enable ==
    /\ Callable
    /\ \E o \in Rates, r \in Resolutions :
       \E f \in 0..Len(enable(self, dev, o, r, 0).bus) :
          \E x \in {enable(self, dev, o, r, f)} :
             Return("enable", << o, r >>, x)

Disable ==
    /\ Callable
    /\ \E f \in 0..Len(disable(self, dev, 0).bus) :
          \E x \in {disable(self, dev, f)} :
             Return("disable", << >>, x)

GetStatus ==
    /\ Callable
    /\ \E f \in 0..1 :
          \E x \in {get_status(self, dev, f)} :
             Return("get_status", << >>, x)

GetTemp ==
    /\ Callable
    /\ \E raw \in BOOLEAN, f \in 0..2 :
          \E x \in {get_temp(self, dev, raw, f)} :
             Return("get_temp", << raw >>, x)

SetLowTempThreshold ==
    /\ Callable
    /\ \E level \in Thresholds, f \in 0..2 :
          \E x \in {set_low_temp_threshold(self, dev, level, f)} :
             Return("set_low_temp_threshold", << level >>, x)

SetHighTempThreshold ==
    /\ Callable
    /\ \E level \in Thresholds, f \in 0..2 :
          \E x \in {set_high_temp_threshold(self, dev, level, f)} :
             Return("set_high_temp_threshold", << level >>, x)

SetEventInterrupt ==
    /\ Callable
    /\ \E en \in BOOLEAN, f \in 0..2 :
          \E x \in {set_event_interrupt(self, dev, en, f)} :
             Return("set_event_interrupt", << en >>, x)

SetThermLimit ==
    /\ Callable
    /\ \E level \in ThermLevels, wrap \in BOOLEAN :
       \E f \in 0..Len(set_therm_limit(self, dev, level, 0, wrap).bus) :
          \E x \in {set_therm_limit(self, dev, level, f, wrap)} :
             Return("set_therm_limit", << level >>, x)

SetThermHysteresisLimit ==
    /\ Callable
    /\ \E level \in ThermLevels, wrap \in BOOLEAN :
       \E f \in 0..Len(set_therm_hysteresis_limit(self, dev, level, 0, wrap).bus) :
          \E x \in {set_therm_hysteresis_limit(self, dev, level, f, wrap)} :
             Return("set_therm_hysteresis_limit", << level >>, x)

SetTimeout ==
    /\ Callable
    /\ \E en \in BOOLEAN, f \in 0..2 :
          \E x \in {set_timeout(self, dev, en, f)} :
             Return("set_timeout", << en >>, x)

Next ==
    \/ Construct
    \/ Enable
    \/ Disable
    \/ GetStatus
    \/ GetTemp
    \/ SetLowTempThreshold
    \/ SetHighTempThreshold
    \/ SetEventInterrupt
    \/ SetThermLimit
    \/ SetThermHysteresisLimit
    \/ SetTimeout

Spec == Init /\ [][Next]_vars

(* ------------------------------------------------------------------ *)
(* get_temp on every temperature word: the instance is constructed on  *)
(* a sensor holding the power-on values and any temperature bytes.     *)
(* ------------------------------------------------------------------ *)
Byte == 0..255

InitTemp ==
    \E h \in Byte, l \in Byte :
       LET d == [PowerOn EXCEPT ![REG_TEMPERATURE_H] = h, ![REG_TEMPERATURE_L] = l]
       IN \E x \in {__init__(d, TRUE, 0)} :
           /\ phase = "ready"
           /\ self = x.self
           /\ dev = x.dev
           /\ call = [op |-> "__init__", args |-> << TRUE >>, ret |-> x.ret,
                      val |-> x.val, exc |-> x.exc, bus |-> x.bus]
           /\ n = 0
           /\ again = FALSE

SpecTemp == InitTemp /\ [][GetTemp]_vars

(* ------------------------------------------------------------------ *)
(* Properties                                                          *)
(* ------------------------------------------------------------------ *)
\* Bit k of byte c.
Bit(c, k) == Shr(c, k) % 2

\* Some transaction of call c failed.
BusFailed(c) == \E i \in 1..Len(c.bus) : ~c.bus[i].ok

\* C1: after a construction in which no bus transaction fails, whatever the
\* registers held before, the device holds the default configuration the
\* cache shows: the low nibble of CONV_RATE is 0x01 (125mHz), bit 1 of
\* CONFIGURATION is clear and CONFIGURATION & 0x0C is 0x0C (12-bit).
C1_DeviceHoldsDefaults ==
    (phase = "ready" /\ call.op = "__init__") =>
        /\ BitAnd(dev[REG_CONV_RATE], CONV_RATE_MASK) = BitAnd(self.odr, CONV_RATE_MASK)
        /\ BitAnd(dev[REG_CONV_RATE], CONV_RATE_MASK) = 1
        /\ Bit(dev[REG_CONFIGURATION], 1) = 0
        /\ BitAnd(dev[REG_CONFIGURATION], CONF_RES_MASK) = self.resolution
        /\ BitAnd(dev[REG_CONFIGURATION], CONF_RES_MASK) = 12

\* C2: for every status byte, get_status decodes four independent flags:
\* busy iff bit 7 (STATUS_BUSY), t_high iff bit 6 (STATUS_THIGH), t_low iff
\* bit 5 (STATUS_LOW), therm iff bit 0 (STATUS_THURM).
C2_StatusFlags ==
    (call.op = "get_status" /\ call.ret = "value") =>
        LET status == dev[REG_STATUS]
        IN  /\ call.val.busy   = (BitAnd(status, STATUS_BUSY) # 0)
            /\ call.val.t_high = (BitAnd(status, STATUS_THIGH) # 0)
            /\ call.val.t_low  = (BitAnd(status, STATUS_LOW) # 0)
            /\ call.val.therm  = (BitAnd(status, STATUS_THURM) # 0)

\* The 16-bit two's-complement value of the word w, by arithmetic.
TwosComplement(w) == IF w < 32768 THEN w ELSE w - 65536

\* C3: get_temp reads TEMPERATURE_H, then TEMPERATURE_L, and forms
\* w = (high << 8) | low; get_temp(raw=True) returns w, get_temp(raw=False)
\* returns v / 256 for v the 16-bit two's-complement value of w, so that
\* 256 * result is an integer in [-32768, 32767].
C3_TempDecoding ==
    (call.op = "get_temp" /\ call.ret = "value") =>
        LET high == dev[REG_TEMPERATURE_H]
            low  == dev[REG_TEMPERATURE_L]
            w    == 256 * high + low
        IN  /\ call.bus = << [rw |-> "r", reg |-> REG_TEMPERATURE_H, val |-> high, ok |-> TRUE],
                             [rw |-> "r", reg |-> REG_TEMPERATURE_L, val |-> low, ok |-> TRUE] >>
            /\ IF call.args[1]
               THEN call.val = w
               ELSE /\ call.val.den = 256
                    /\ call.val.num = TwosComplement(w)
                    /\ call.val.num \in -32768..32767

\* C3 witness: get_temp() on 0xE700 returned -25.0.
C3_Witness ==
    /\ call.op = "get_temp" /\ call.ret = "value" /\ call.args = << FALSE >>
    /\ dev[REG_TEMPERATURE_H] = 231 /\ dev[REG_TEMPERATURE_L] = 0
    /\ call.val = [num |-> -25 * 256, den |-> 256]

\* The calls C4 names: a rate that is no output-data-rate code, a forbidden
\* rate/resolution pair, a therm level outside [-127, 127].
InvalidArgument(c) ==
    \/ /\ c.op = "enable"
       /\ \/ c.args[1] \notin ODR_AVAILABLE
          \/ c.args = << ODR_16Hz, STTS751_RES_12 >>
          \/ c.args = << ODR_32Hz, STTS751_RES_11 >>
          \/ c.args = << ODR_32Hz, STTS751_RES_12 >>
    \/ /\ c.op \in {"set_therm_limit", "set_therm_hysteresis_limit"}
       /\ (c.args[1] < -127 \/ c.args[1] > 127)

\* C4: a call with an invalid argument raises ValueError before any bus
\* read or write and leaves every cached field and every register unchanged.
C4_InvalidArgumentNoEffect ==
    [][ (n' = n + 1 /\ InvalidArgument(call')) =>
            /\ call'.exc = "ValueError"
            /\ call'.bus = << >>
            /\ self' = self
            /\ dev' = dev ]_vars

\* C4 witness: enable(32Hz, 11-bit) was rejected.
C4_Witness ==
    /\ n >= 1 /\ call.op = "enable" /\ call.args = << ODR_32Hz, STTS751_RES_11 >>
    /\ call.exc = "ValueError"

\* C5: the byte set_event_interrupt / set_timeout write back differs from
\* the byte c they read at most in bit 6, which is cleared for enable=True
\* and set for enable=False.
C5_OnlyBit6Changes ==
    (call.op \in {"set_event_interrupt", "set_timeout"} /\ Len(call.bus) = 2) =>
        LET c == call.bus[1].val
            w == call.bus[2].val
        IN  w = IF call.args[1] THEN c - 64 * Bit(c, 6) ELSE c + 64 * (1 - Bit(c, 6))

\* C6: when the transport's start() fails, the constructor raises: no
\* register is read or written afterwards and no instance is returned.
C6_StartFailureIsFatal ==
    (call.op = "__init__" /\ call.args = << FALSE >>) =>
        /\ phase = "failed"
        /\ call.exc = "PeripheralError"
        /\ call.bus = << >>

\* C7: on every constructed instance the cached therm_limit and
\* therm_hyst_limit are signed integers in [-127, 127].
C7_ThermCacheInRange ==
    phase = "ready" =>
        /\ self.therm_limit \in -127..127
        /\ self.therm_hyst_limit \in -127..127

\* C8: when enable(rate, res) has returned True, the same call made again
\* at once returns True and issues no bus transaction; likewise disable()
\* after disable(); the cached fields are unchanged by the second call.
C8_Idempotent ==
    [][ (/\ n' = n + 1
         /\ call.op \in {"enable", "disable"} /\ call.ret = "True"
         /\ call'.op = call.op /\ call'.args = call.args) =>
            /\ call'.ret = "True"
            /\ call'.bus = << >>
            /\ self' = self ]_vars

\* C8 witness: enable(1Hz, 9-bit) reconfigured the device, returned True and
\* was called again.
C8_Witness ==
    /\ again /\ call.op = "enable" /\ call.args = << ODR_1Hz, STTS751_RES_9 >>
    /\ self.odr = ODR_1Hz /\ self.resolution = STTS751_RES_9

\* The methods that change the configuration.
ConfigOps ==
    {"enable", "disable", "set_low_temp_threshold", "set_high_temp_threshold",
     "set_event_interrupt", "set_therm_limit", "set_therm_hysteresis_limit",
     "set_timeout"}

\* C9: when a bus read or write issued by a configuration method fails,
\* every cached field has the same value after the call as before it.
C9_FailedWriteKeepsCache ==
    [][ (n' = n + 1 /\ call'.op \in ConfigOps /\ BusFailed(call')) =>
            self' = self ]_vars

\* C9 witness: the second write of set_low_temp_threshold failed, after the
\* first one reached the device.
C9_Witness ==
    /\ call.op = "set_low_temp_threshold" /\ Len(call.bus) = 2
    /\ call.bus[1].ok /\ ~call.bus[2].ok
    /\ dev[REG_LOW_LIMIT_L] = call.bus[1].val
    /\ self.low_th # call.args[1]

\* C10: every enable(rate, res) that returns True leaves the device's
\* resolution field equal to the requested and cached resolution:
\* CONFIGURATION & 0x0C = res = self.resolution.
C10_DeviceResolution ==
    (call.op = "enable" /\ call.ret = "True") =>
        /\ BitAnd(dev[REG_CONFIGURATION], CONF_RES_MASK) = call.args[2]
        /\ self.resolution = call.args[2]

====
